---- MODULE Spec2Model ----
(***************************************************************************)
(* A model of errsel (github.com/nytopop/errsel): error classes, lifters   *)
(* and selectors over cause chains.                                        *)
(*                                                                         *)
(* An error value is the sequence of the nodes of its cause chain, the     *)
(* outermost node first; the nil error is the empty sequence.  The node    *)
(* reached after k calls of Cause() is the suffix that starts at index     *)
(* k+1, so two nodes of one chain are the same node iff the suffixes are   *)
(* equal.  A *class pointer is a record whose id stands for the address.   *)
(*                                                                         *)
(* The repository holds two generations of the package.  The definitions   *)
(* of select.go, traverse.go, class_impl.go and the Lifter file keep the   *)
(* source's names; the definitions of the older errsel.go carry the        *)
(* prefix errsel_.                                                         *)
(***************************************************************************)
EXTENDS Integers, Sequences, FiniteSets, TLC

VARIABLES
    gen,    \* which generation of the package the program links: "select" or "errsel"
    err,    \* the error value the program holds
    last,   \* the last call made: its name, receiver, argument and results
    \* one evaluation of AndC(ss...) or OrC(ss...) on err:
    comb,   \* the combinator: [kind, ss]
    accum,  \* var accum bool
    mu,     \* var mu sync.Mutex: 0 when unlocked, else the task holding it
    wg,     \* var wg sync.WaitGroup: its counter
    task,   \* the goroutines of the evaluation: [pc, ok, tmp, calls] each
    main,   \* the evaluating goroutine: [pc, i]
    ret,    \* what the evaluation returned: [ok, er]
    \* one selector o = Once(f, s), evaluated by several goroutines:
    once,   \* var once sync.Once, and the s it guards: [s, done, m]
    ev,     \* the evaluation each goroutine is in: [pc, e, ok, er]
    fcalls, \* the calls of f so far, in order: the argument of each
    started,    \* how many evaluations of o have been started
    returned,   \* how many have returned: [hit, miss]
    \* one traversal of a cause graph that may hold a cycle:
    heap,   \* the error values allocated: [kind, shadow, cause] each
    walk    \* the traversal in progress: its position and local variables

seqVars == <<err, last>>

concVars == <<comb, accum, mu, wg, task, main, ret>>

onceVars == <<once, ev, fcalls, started, returned>>

cycVars == <<heap, walk>>

vars == <<gen, seqVars, concVars, onceVars, cycVars>>

----------------------------------------------------------------------------
(* Bounds of the model. *)

\* the longest cause chain that is queried; a chain is wrapped only while shorter
MaxLen == 3

\* the most classes g1..gn handed to Binds after f
MaxBinds == 2

\* the most selectors handed to And and Or
MaxArgs == 2

\* the most selectors handed to AndC and OrC, each run by a goroutine
MaxTasks == 2

\* the longest chain traversed with options
MaxChain == 4

\* the largest k of Lens(k) and d of Depth(d)
MaxOpt == 4

\* the goroutines that evaluate one Once selector
MaxGoroutines == 2

\* the most evaluations of one Once selector
MaxEvals == 3

----------------------------------------------------------------------------
(* Error values (github.com/pkg/errors and classErr). *)

Nil == <<>>

\* the struct behind a *class pointer; id is its address
class(id, named, name, shadow) ==
    [id |-> id, named |-> named, name |-> name, shadow |-> shadow]

NoClass == class(0, FALSE, "", FALSE)

node(kind, cls, msg) == [kind |-> kind, cls |-> cls, msg |-> msg]

\* errors.New / errors.Errorf: a fundamental error, which has no Cause method
errors_New(msg) == <<node("fundamental", NoClass, msg)>>

\* errors.WithStack: nil for nil, else one withStack node around err
errors_WithStack(e) ==
    IF e = Nil THEN Nil ELSE <<node("withStack", NoClass, "")>> \o e

\* errors.WithMessage: nil for nil, else one withMessage node around err
errors_WithMessage(e, msg) ==
    IF e = Nil THEN Nil ELSE <<node("withMessage", NoClass, msg)>> \o e

\* errors.Wrap / errors.Wrapf: nil for nil, else withStack{withMessage{err}}
errors_Wrap(e, msg) ==
    IF e = Nil THEN Nil
    ELSE <<node("withStack", NoClass, ""), node("withMessage", NoClass, msg)>> \o e

\* the type assertion e.(causer): false for the nil interface and for a
\* fundamental error
IsCauser(e) ==
    /\ e # Nil
    /\ Head(e).kind \in {"withStack", "withMessage", "classErr"}

\* the type assertion e.(*classErr)
IsClassErr(e) == e # Nil /\ Head(e).kind = "classErr"

\* c.Cause()
Cause(e) == Tail(e)

----------------------------------------------------------------------------
(* class_impl.go: class.in and class.lift. *)

\* class.in comparing the structs instead of the pointers
class_in_structural(e, er) ==
    IF IsClassErr(er)
    THEN \/ [Head(er).cls EXCEPT !.id = 0] = [e EXCEPT !.id = 0]
         \/ (Head(er).cls.named /\ e.named /\ Head(er).cls.name = e.name)
    ELSE FALSE

class_in(e, er) ==
    IF IsClassErr(er)
    THEN \/ Head(er).cls.id = e.id
         \/ (Head(er).cls.named /\ e.named /\ Head(er).cls.name = e.name)
    ELSE FALSE

class_lift(e, er) ==
    IF er = Nil THEN Nil ELSE <<node("classErr", e, "")>> \o er

----------------------------------------------------------------------------
(* traverse.go: traverseConfig, Root, Causes, Classes. *)

\* applyTraverseOpts over Lens(k) and Depth(d); no option leaves the zero value
traverseConfig(lens, depth) == [lens |-> lens, depth |-> depth]

\* A func(error) bool that has no side effect:
\*   "class.in" the method value c.in        "Error" the closure of Error(err)
\*   "Type"     the closure of Type(t)       "const" a caller's constant func
Pred(f, er) ==
    CASE f.p = "class.in" -> class_in(f.c, er)
      [] f.p = "Error"    -> f.target = er
      [] f.p = "Type"     -> er # Nil /\ Head(er).kind = f.kind
      [] f.p = "const"    -> f.v
      [] f.p = "probe"    -> f.v

\* the calls of a probe that a traversal made: one per error it was applied to
Probes(f, seen) ==
    IF f.p = "probe" THEN [i \in 1..Len(seen) |-> [f |-> f.name, arg |-> seen[i]]]
    ELSE <<>>

\* causes.traverse, the lens loop: the assertion is made on err, not on cursor
RECURSIVE causes_lens(_, _, _)
causes_lens(er, cursor, lens) ==
    IF lens > 0
    THEN IF IsCauser(er) THEN causes_lens(er, Cause(er), lens - 1) ELSE cursor
    ELSE cursor

\* causes.traverse, the depth loop: [ok, er, seen], seen being the errors
\* that t.f was applied to, in order
RECURSIVE causes_depth(_, _, _, _)
causes_depth(f, cfg, cursor, depth) ==
    IF depth < cfg.depth \/ cfg.depth = 0
    THEN IF Pred(f, cursor) THEN [ok |-> TRUE, er |-> cursor, seen |-> <<cursor>>]
         ELSE IF ~IsCauser(cursor) THEN [ok |-> FALSE, er |-> Nil, seen |-> <<cursor>>]
         ELSE LET r == causes_depth(f, cfg, Cause(cursor), depth + 1)
              IN  [r EXCEPT !.seen = <<cursor>> \o @]
    ELSE [ok |-> FALSE, er |-> Nil, seen |-> <<>>]

causes_traverse(f, cfg, er) ==
    causes_depth(f, cfg, causes_lens(er, er, cfg.lens), 0)

\* classes.traverse, the lens loop; yields the cursor
RECURSIVE classes_lens(_, _, _, _)
classes_lens(er, cursor, lensCursor, lens) ==
    IF lens > 0
    THEN LET c == IF IsClassErr(lensCursor) THEN lensCursor ELSE cursor
         IN  IF IsCauser(er) THEN classes_lens(er, c, Cause(er), lens - 1)
             ELSE c
    ELSE cursor

\* classes.traverse, the depth loop with the shadow test made before t.f(e)
RECURSIVE classes_depth_shadowFirst(_, _, _, _)
classes_depth_shadowFirst(f, cfg, cursor, depth) ==
    IF depth < cfg.depth \/ cfg.depth = 0
    THEN IF IsClassErr(cursor) /\ Head(cursor).cls.shadow
         THEN [ok |-> FALSE, er |-> Nil, seen |-> <<>>]
         ELSE IF IsClassErr(cursor) /\ Pred(f, cursor)
         THEN [ok |-> TRUE, er |-> cursor, seen |-> <<cursor>>]
         ELSE IF ~IsCauser(cursor) THEN [ok |-> FALSE, er |-> Nil, seen |-> <<>>]
         ELSE LET r == classes_depth_shadowFirst(f, cfg, Cause(cursor), depth + 1)
              IN  IF IsClassErr(cursor) THEN [r EXCEPT !.seen = <<cursor>> \o @] ELSE r
    ELSE [ok |-> FALSE, er |-> Nil, seen |-> <<>>]

\* classes.traverse, the depth loop: [ok, er, seen], seen being the errors
\* that t.f was applied to, in order
RECURSIVE classes_depth(_, _, _, _)
classes_depth(f, cfg, cursor, depth) ==
    IF depth < cfg.depth \/ cfg.depth = 0
    THEN IF IsClassErr(cursor) /\ Pred(f, cursor)
         THEN [ok |-> TRUE, er |-> cursor, seen |-> <<cursor>>]
         ELSE IF IsClassErr(cursor) /\ Head(cursor).cls.shadow
         THEN [ok |-> FALSE, er |-> Nil, seen |-> <<cursor>>]
         ELSE IF ~IsCauser(cursor)
         THEN [ok |-> FALSE, er |-> Nil,
               seen |-> IF IsClassErr(cursor) THEN <<cursor>> ELSE <<>>]
         ELSE LET r == classes_depth(f, cfg, Cause(cursor), depth + 1)
              IN  IF IsClassErr(cursor) THEN [r EXCEPT !.seen = <<cursor>> \o @] ELSE r
    ELSE [ok |-> FALSE, er |-> Nil, seen |-> <<>>]

classes_traverse(f, cfg, er) ==
    classes_depth(f, cfg, classes_lens(er, er, er, cfg.lens), 0)

\* the selector values, as data
Root(f) == [t |-> "Root", f |-> f]

Causes(f, cfg) == [t |-> "Causes", f |-> f, cfg |-> cfg]

Classes(f, cfg) == [t |-> "Classes", f |-> f, cfg |-> cfg]

----------------------------------------------------------------------------
(* select.go: the combinators.  Each is Root of a closure; the closure is  *)
(* kept as data and run by Func.                                           *)

And(ss) == Root([p |-> "And", ss |-> ss])

Or(ss) == Root([p |-> "Or", ss |-> ss])

Not(s) == Root([p |-> "Not", s |-> s])

Call(f, s) == Root([p |-> "Call", f |-> f, s |-> s])

\* Error(err, opts...): Causes over the closure err == er
Error(target, cfg) == Causes([p |-> "Error", target |-> target], cfg)

\* accum = accum || ok, the slip of using Or's fold in And
And_fold_or(acc, ok) == acc \/ ok

\* accum = accum && ok
And_fold(acc, ok) == acc /\ ok

\* accum = accum || ok
Or_fold(acc, ok) == acc \/ ok

\* the slip of a Not that hands the result of s on as it is
Not_same(ok) == ok

\* Not: return !s.In(err)
Not_In(ok) == ~ok

\* root.traverse: (true, err) when f(err), else (false, nil)
root_result(ok, er) == IF ok THEN [ok |-> TRUE, er |-> er] ELSE [ok |-> FALSE, er |-> Nil]

\* Traverse(s, er) is s.Traverse(er): [ok, er, calls], calls being the calls
\* of the functions handed to Call that the evaluation made, in order.
\* Func(f, er) is f(er) for the func(error) bool inside a Root: [ok, calls].
RECURSIVE Traverse(_, _), Func(_, _), And_loop(_, _, _, _), Or_loop(_, _, _, _)

And_loop(ss, er, i, acc) ==
    IF i > Len(ss) THEN acc
    ELSE LET r == Traverse(ss[i], er)
         IN  And_loop(ss, er, i + 1,
                      [ok |-> And_fold(acc.ok, r.ok), calls |-> acc.calls \o r.calls])

Or_loop(ss, er, i, acc) ==
    IF i > Len(ss) THEN acc
    ELSE LET r == Traverse(ss[i], er)
         IN  Or_loop(ss, er, i + 1,
                     [ok |-> Or_fold(acc.ok, r.ok), calls |-> acc.calls \o r.calls])

Func(f, er) ==
    CASE f.p = "And"  -> And_loop(f.ss, er, 1, [ok |-> TRUE, calls |-> <<>>])
      [] f.p = "Or"   -> Or_loop(f.ss, er, 1, [ok |-> FALSE, calls |-> <<>>])
      [] f.p = "Not"  -> LET r == Traverse(f.s, er)
                         IN  [ok |-> Not_In(r.ok), calls |-> r.calls]
      [] f.p = "Call" -> LET r == Traverse(f.s, er)
                         IN  [ok |-> r.ok,
                              calls |-> IF r.ok
                                        THEN r.calls \o <<[f |-> f.f, arg |-> r.er]>>
                                        ELSE r.calls]
      [] OTHER        -> [ok |-> Pred(f, er), calls |-> <<>>]

Traverse(s, er) ==
    CASE s.t = "Root" ->
            LET r == Func(s.f, er)
                x == root_result(r.ok, er)
            IN  [ok |-> x.ok, er |-> x.er, calls |-> r.calls]
      [] s.t = "Causes" ->
            LET x == causes_traverse(s.f, s.cfg, er)
            IN  [ok |-> x.ok, er |-> x.er, calls |-> Probes(s.f, x.seen)]
      [] s.t = "Classes" ->
            LET x == classes_traverse(s.f, s.cfg, er)
            IN  [ok |-> x.ok, er |-> x.er, calls |-> Probes(s.f, x.seen)]

\* SelectorFunc.In
In(s, er) == Traverse(s, er).ok

\* SelectorFunc.Is
Is(s, er) == Traverse(s, er).er

----------------------------------------------------------------------------
(* The Lifter file (Class, ToClass, Bind, Binds, LifterFunc) and the        *)
(* constructors of class_impl.go.  A LifterFunc is kept as data:            *)
(*   "class.lift" the method value c.lift                                   *)
(*   "Bind"       the closure func(err) { return f(lft.Lift(err)) }         *)

\* LifterFunc_call(f, er) is f(er); LifterFunc_Lift(f, er) is f.Lift(er)
RECURSIVE LifterFunc_call(_, _), LifterFunc_Lift(_, _)

LifterFunc_call(f, er) ==
    CASE f.t = "class.lift" -> class_lift(f.c, er)
      [] f.t = "Bind"       -> LifterFunc_call(f.f, LifterFunc_Lift(f.lft, er))

LifterFunc_Lift(f, er) ==
    IF er = Nil THEN Nil ELSE LifterFunc_call(f, er)

LifterFunc_Bind(f, lft) == [t |-> "Bind", f |-> f, lft |-> lft]

LifterFunc_New(f, msg) == LifterFunc_call(f, errors_New(msg))

LifterFunc_Errorf(f, msg) == LifterFunc_call(f, errors_New(msg))

LifterFunc_WithStack(f, er) == LifterFunc_call(f, errors_WithStack(er))

LifterFunc_WithMessage(f, er, msg) == LifterFunc_call(f, errors_WithMessage(er, msg))

LifterFunc_Wrap(f, er, msg) == LifterFunc_call(f, errors_Wrap(er, msg))

LifterFunc_Wrapf(f, er, msg) == LifterFunc_call(f, errors_Wrap(er, msg))

\* errClass{Lifter, Selector}: the methods of both fields are promoted
ToClass(lft, sel) == [Lifter |-> lft, Selector |-> sel]

\* the four constructors end alike: ToClass(LifterFunc(c.lift), Classes(c.in))
classOf(c) ==
    ToClass([t |-> "class.lift", c |-> c],
            Classes([p |-> "class.in", c |-> c], traverseConfig(0, 0)))

Anonymous(id) == classOf(class(id, FALSE, "", FALSE))

Named(id, name) == classOf(class(id, TRUE, name, FALSE))

AnonymousShadow(id) == classOf(class(id, FALSE, "", TRUE))

NamedShadow(id, name) == classOf(class(id, TRUE, name, TRUE))

\* Bind whose selector is g alone
Bind_selectorOfG(f, g) ==
    ToClass(LifterFunc_Bind(f.Lifter, g.Lifter), And(<<g.Selector>>))

\* Bind: ToClass(f.Bind(g), And(f, g))
Bind(f, g) ==
    ToClass(LifterFunc_Bind(f.Lifter, g.Lifter), And(<<f.Selector, g.Selector>>))

RECURSIVE Binds(_, _)
Binds(f, gs) == IF gs = <<>> THEN f ELSE Binds(Bind(f, Head(gs)), Tail(gs))

\* a Lifter method of a class, by name
LiftOps == {"Lift", "New", "Errorf", "WithStack", "WithMessage", "Wrap", "Wrapf"}

Lifter_method(op, c, er, msg) ==
    CASE op = "Lift"        -> LifterFunc_Lift(c.Lifter, er)
      [] op = "New"         -> LifterFunc_New(c.Lifter, msg)
      [] op = "Errorf"      -> LifterFunc_Errorf(c.Lifter, msg)
      [] op = "WithStack"   -> LifterFunc_WithStack(c.Lifter, er)
      [] op = "WithMessage" -> LifterFunc_WithMessage(c.Lifter, er, msg)
      [] op = "Wrap"        -> LifterFunc_Wrap(c.Lifter, er, msg)
      [] op = "Wrapf"       -> LifterFunc_Wrapf(c.Lifter, er, msg)

----------------------------------------------------------------------------
(* errsel.go, the older generation: CausesOf, classErrsOf, *Class and its   *)
(* selectors, which return (error, bool) and take the options per call.     *)

\* the loop of CausesOf: a causer's cause is appended, never the node itself
RECURSIVE errsel_CausesOf_loop(_, _)
errsel_CausesOf_loop(e, errs) ==
    IF IsCauser(e) THEN errsel_CausesOf_loop(Cause(e), Append(errs, Cause(e)))
    ELSE Append(errs, e)

\* errs[lo:] of a Go slice
SliceFrom(errs, lo) == SubSeq(errs, lo + 1, Len(errs))

\* errs[:hi] of a Go slice
SliceTo(errs, hi) == SubSeq(errs, 1, hi)

\* "apply lensing" and "apply depth cutoff"; errs is not empty
errsel_cutoffs(errs, cfg) ==
    LET lensed == IF cfg.lens < Len(errs) THEN SliceFrom(errs, cfg.lens)
                  ELSE SliceFrom(errs, Len(errs) - 1)
    IN  IF cfg.depth # 0 /\ Len(lensed) > cfg.depth
        THEN SliceTo(lensed, cfg.depth + 1)
        ELSE lensed

errsel_CausesOf(er, cfg) == errsel_cutoffs(errsel_CausesOf_loop(er, <<>>), cfg)

\* "apply shadowing": the slice up to and including the first shadowing class
RECURSIVE errsel_shadow(_, _)
errsel_shadow(classErrs, i) ==
    IF i > Len(classErrs) THEN classErrs
    ELSE IF Head(classErrs[i]).cls.shadow THEN SliceTo(classErrs, i)
    ELSE errsel_shadow(classErrs, i + 1)

\* classErrsOf: [panic, v]; classErrs[len(classErrs)-1:] of an empty slice
\* panics (slice bounds out of range)
errsel_classErrsOf(er, cfg) ==
    LET all == errsel_CausesOf(er, traverseConfig(0, 0))
        classErrs == SelectSeq(all, IsClassErr)
    IN  IF Len(classErrs) = 0 /\ ~(cfg.lens < Len(classErrs))
        THEN [panic |-> TRUE, v |-> <<>>]
        ELSE [panic |-> FALSE, v |-> errsel_shadow(errsel_cutoffs(classErrs, cfg), 1)]

\* ClassesOf: [panic, v], v the classes; classes[len(classes)-1:] of an empty
\* slice panics (slice bounds out of range)
errsel_ClassesOf(er, cfg) ==
    LET all == errsel_CausesOf(er, traverseConfig(0, 0))
        nodes == SelectSeq(all, IsClassErr)
    IN  IF Len(nodes) = 0 /\ ~(cfg.lens < Len(nodes))
        THEN [panic |-> TRUE, v |-> <<>>]
        ELSE LET cut == errsel_shadow(errsel_cutoffs(nodes, cfg), 1)
             IN  [panic |-> FALSE, v |-> [i \in 1..Len(cut) |-> Head(cut[i]).cls]]

\* causesOf, the recursive reference of the benchmark file; the recursive
\* call takes no options
RECURSIVE causesOf(_, _)
causesOf(er, cfg) ==
    LET errs == IF IsCauser(er)
                THEN <<er>> \o causesOf(Cause(er), traverseConfig(0, 0))
                ELSE <<er>>
    IN  errsel_cutoffs(errs, cfg)

\* the loop of Class.Query over classErrs
RECURSIVE errsel_Class_Query_loop(_, _, _, _)
errsel_Class_Query_loop(e, er, classErrs, i) ==
    IF i > Len(classErrs) THEN [e |-> er, ok |-> FALSE]
    ELSE LET cs == Head(classErrs[i]).cls
         IN  IF cs.id = e.id THEN [e |-> classErrs[i], ok |-> TRUE]
             ELSE IF cs.named /\ e.named /\ cs.name = e.name
             THEN [e |-> classErrs[i], ok |-> TRUE]
             ELSE errsel_Class_Query_loop(e, er, classErrs, i + 1)

\* Class.Query: [e, ok, panic]
errsel_Class_Query(e, er, cfg) ==
    LET ces == errsel_classErrsOf(er, cfg)
    IN  IF ces.panic THEN [e |-> Nil, ok |-> FALSE, panic |-> TRUE]
        ELSE LET r == errsel_Class_Query_loop(e, er, ces.v, 1)
             IN  [e |-> r.e, ok |-> r.ok, panic |-> FALSE]

\* Class.Wrapc: no nil check
errsel_Wrapc(e, er) == <<node("classErr", e, "")>> \o er

errsel_New(e, msg) == errsel_Wrapc(e, errors_New(msg))

errsel_Errorf(e, msg) == errsel_Wrapc(e, errors_New(msg))

errsel_WithMessage(e, er, msg) == errsel_Wrapc(e, errors_WithMessage(er, msg))

errsel_WithStack(e, er) == errsel_Wrapc(e, errors_WithStack(er))

errsel_Wrap(e, er, msg) == errsel_Wrapc(e, errors_Wrap(er, msg))

errsel_Wrapf(e, er, msg) == errsel_Wrapc(e, errors_Wrap(er, msg))

errsel_LiftOps == {"Wrapc", "New", "Errorf", "WithStack", "WithMessage", "Wrap", "Wrapf"}

errsel_Class_method(op, e, er, msg) ==
    CASE op = "Wrapc"       -> errsel_Wrapc(e, er)
      [] op = "New"         -> errsel_New(e, msg)
      [] op = "Errorf"      -> errsel_Errorf(e, msg)
      [] op = "WithStack"   -> errsel_WithStack(e, er)
      [] op = "WithMessage" -> errsel_WithMessage(e, er, msg)
      [] op = "Wrap"        -> errsel_Wrap(e, er, msg)
      [] op = "Wrapf"       -> errsel_Wrapf(e, er, msg)

\* the selector values of errsel.go, as data; a *Class is itself a Selector
errsel_Class(c) == [t |-> "Class", c |-> c]

errsel_And(ss) == [t |-> "And", ss |-> ss]

errsel_Or(ss) == [t |-> "Or", ss |-> ss]

errsel_Not(s) == [t |-> "Not", s |-> s]

errsel_Error(target) == [t |-> "Error", target |-> target]

errsel_Call(f, s) == [t |-> "Call", f |-> f, s |-> s]

\* the loop of Error: c == e compares with the queried error
RECURSIVE errsel_Error_loop(_, _, _)
errsel_Error_loop(e, cs, i) ==
    IF i > Len(cs) THEN [e |-> e, ok |-> FALSE]
    ELSE IF cs[i] = e THEN [e |-> cs[i], ok |-> TRUE]
    ELSE errsel_Error_loop(e, cs, i + 1)

\* errsel_Query(s, er, cfg) is s.Query(er, opts...): [e, ok, panic, calls].
\* In And and Or the call sel.In sits right of && and ||, which Go does not
\* evaluate once accum decides the result.
RECURSIVE errsel_Query(_, _, _), errsel_And_loop(_, _, _, _, _), errsel_Or_loop(_, _, _, _, _)

errsel_And_loop(ss, er, cfg, i, acc) ==
    IF i > Len(ss) \/ acc.panic THEN acc
    ELSE IF ~acc.ok THEN errsel_And_loop(ss, er, cfg, i + 1, acc)
    ELSE LET r == errsel_Query(ss[i], er, cfg)
         IN  errsel_And_loop(ss, er, cfg, i + 1,
                 [ok |-> r.ok, panic |-> r.panic, calls |-> acc.calls \o r.calls])

errsel_Or_loop(ss, er, cfg, i, acc) ==
    IF i > Len(ss) \/ acc.panic THEN acc
    ELSE IF acc.ok THEN errsel_Or_loop(ss, er, cfg, i + 1, acc)
    ELSE LET r == errsel_Query(ss[i], er, cfg)
         IN  errsel_Or_loop(ss, er, cfg, i + 1,
                 [ok |-> r.ok, panic |-> r.panic, calls |-> acc.calls \o r.calls])

errsel_Query(s, er, cfg) ==
    CASE s.t = "Class" ->
            LET r == errsel_Class_Query(s.c, er, cfg)
            IN  [e |-> r.e, ok |-> r.ok, panic |-> r.panic, calls |-> <<>>]
      [] s.t = "And" ->
            LET r == errsel_And_loop(s.ss, er, cfg, 1,
                                     [ok |-> TRUE, panic |-> FALSE, calls |-> <<>>])
            IN  [e |-> er, ok |-> r.ok /\ ~r.panic, panic |-> r.panic, calls |-> r.calls]
      [] s.t = "Or" ->
            LET r == errsel_Or_loop(s.ss, er, cfg, 1,
                                    [ok |-> FALSE, panic |-> FALSE, calls |-> <<>>])
            IN  [e |-> er, ok |-> r.ok /\ ~r.panic, panic |-> r.panic, calls |-> r.calls]
      [] s.t = "Not" ->
            LET r == errsel_Query(s.s, er, cfg)
            IN  [e |-> r.e, ok |-> ~r.ok /\ ~r.panic, panic |-> r.panic, calls |-> r.calls]
      [] s.t = "Error" ->
            LET r == errsel_Error_loop(er, errsel_CausesOf(er, cfg), 1)
            IN  [e |-> r.e, ok |-> r.ok, panic |-> FALSE, calls |-> <<>>]
      [] s.t = "Call" ->
            LET r == errsel_Query(s.s, er, cfg)
            IN  [e |-> r.e, ok |-> r.ok, panic |-> r.panic,
                 calls |-> IF r.ok /\ ~r.panic
                           THEN r.calls \o <<[f |-> s.f, arg |-> er]>>
                           ELSE r.calls]

---------------------------------------------------------------------------------------------------------------------------------------------------
(* The inputs of the model. *)

\* the class structs the program allocates: two anonymous classes, two
\* independently built Named("database"), Named(""), and the two shadowing kinds
ClassPtrs ==
    { class(1, FALSE, "", FALSE), class(2, FALSE, "", FALSE),
      class(3, TRUE, "database", FALSE), class(4, TRUE, "database", FALSE),
      class(5, TRUE, "", FALSE),
      class(6, FALSE, "", TRUE), class(7, TRUE, "conflict", TRUE) }

PtrOf(id) == CHOOSE p \in ClassPtrs : p.id = id

\* the classes the program queries with
PrimClasses == { classOf(c) : c \in ClassPtrs }

\* the classes the program lifts errors into, one of each constructor
LiftPtrs == { p \in ClassPtrs : p.id \in {1, 3, 6, 7} }

LiftClasses == { classOf(c) : c \in LiftPtrs }

\* the classes handed to Bind and Binds: Anonymous(), Named("database"),
\* NamedShadow("conflict")
BindPrims == { classOf(c) : c \in { p \in ClassPtrs : p.id \in {1, 3, 7} } }

SeqsUpTo(S, n) == UNION { [1..k -> S] : k \in 0..n }

Composites ==
    { Binds(f, gs) : f \in BindPrims, gs \in SeqsUpTo(BindPrims, MaxBinds) \ {<<>>} }

\* the selectors of the classes
ClassSelectors ==
    { c.Selector : c \in PrimClasses } \cup { Bind(f, g).Selector : f, g \in BindPrims }

\* selectors without side effects
BaseSelectors ==
    { classOf(PtrOf(3)).Selector, classOf(PtrOf(7)).Selector,
      Causes([p |-> "Type", kind |-> "fundamental"], traverseConfig(0, 0)),
      Root([p |-> "Type", kind |-> "withMessage"]) }

Selectors ==
    BaseSelectors
    \cup { And(ss) : ss \in SeqsUpTo(BaseSelectors, MaxArgs) }
    \cup { Or(ss) : ss \in SeqsUpTo(BaseSelectors, MaxArgs) }
    \cup { Not(s) : s \in BaseSelectors }
    \cup { Not(Not(s)) : s \in BaseSelectors }
    \cup { Call("f", s) : s \in BaseSelectors }
    \cup { Call("f", And(<<s, Call("g", s)>>)) : s \in BaseSelectors }
    \cup { And(<<Call("f", s), Call("g", t)>>) : s, t \in BaseSelectors }
    \cup { Or(<<Call("f", s), Call("g", t)>>) : s, t \in BaseSelectors }

errsel_ClassSelectors == { errsel_Class(c) : c \in ClassPtrs }

errsel_BaseSelectors ==
    { errsel_Class(PtrOf(3)), errsel_Class(PtrOf(7)), errsel_Error(errors_New("a")) }

errsel_Selectors ==
    errsel_BaseSelectors
    \cup { errsel_And(ss) : ss \in SeqsUpTo(errsel_BaseSelectors, MaxArgs) }
    \cup { errsel_Or(ss) : ss \in SeqsUpTo(errsel_BaseSelectors, MaxArgs) }
    \cup { errsel_Not(s) : s \in errsel_BaseSelectors }
    \cup { errsel_Not(errsel_Not(s)) : s \in errsel_BaseSelectors }
    \cup { errsel_Call("f", s) : s \in errsel_BaseSelectors }
    \cup { errsel_And(<<errsel_Call("f", s), errsel_Call("g", t)>>) :
                s, t \in errsel_BaseSelectors }
    \cup { errsel_Or(<<errsel_Call("f", s), errsel_Call("g", t)>>) :
                s, t \in errsel_BaseSelectors }

NoSelector == [t |-> "none"]

NoCalls == <<>>

----------------------------------------------------------------------------
(* The program: it makes and wraps errors, lifts them into classes and      *)
(* evaluates selectors on them.                                             *)

call(op, cls, sel, arg, out, ok, panic, calls) ==
    [op |-> op, cls |-> cls, sel |-> sel, arg |-> arg, out |-> out,
     ok |-> ok, panic |-> panic, calls |-> calls]

NoCall == call("none", NoClass, NoSelector, Nil, Nil, FALSE, FALSE, NoCalls)

\* no AndC or OrC is being evaluated
ConcIdle ==
    /\ comb = [kind |-> "none", ss |-> <<>>]
    /\ accum = FALSE
    /\ mu = 0
    /\ wg = 0
    /\ task = <<>>
    /\ main = [pc |-> "none", i |-> 0]
    /\ ret = [ok |-> FALSE, er |-> Nil]

\* no Once selector is being evaluated
OnceIdle ==
    /\ once = [s |-> NoSelector, done |-> 0, m |-> 0]
    /\ ev = <<>>
    /\ fcalls = <<>>
    /\ started = 0
    /\ returned = [hit |-> 0, miss |-> 0]

\* no cause graph is being traversed step by step
CycIdle ==
    /\ heap = <<>>
    /\ walk = [pc |-> "none"]

Init ==
    /\ gen \in {"select", "errsel"}
    /\ CycIdle
    /\ err = Nil
    /\ last = NoCall
    /\ ConcIdle
    /\ OnceIdle

\* A query is the last thing the program does with an error value: after it
\* the program starts over.
Building == last.op \notin {"Traverse", "Query"}

\* err = errors.New("a"), when the program holds no error or is done with it
NewError ==
    /\ err = Nil \/ ~Building
    /\ err' = errors_New("a")
    /\ last' = call("errors.New", NoClass, NoSelector, Nil, err', FALSE, FALSE, NoCalls)
    /\ UNCHANGED <<gen, cycVars, onceVars, concVars>>

\* err = nil, when the program is done with the error
NilError ==
    /\ ~Building
    /\ err' = Nil
    /\ last' = call("nil", NoClass, NoSelector, Nil, Nil, FALSE, FALSE, NoCalls)
    /\ UNCHANGED <<gen, cycVars, onceVars, concVars>>

\* err = errors.WithMessage(err, "m")
WithMessage ==
    /\ Building
    /\ Len(err) < MaxLen
    /\ err' = errors_WithMessage(err, "m")
    /\ last' = call("errors.WithMessage", NoClass, NoSelector, err, err', FALSE, FALSE, NoCalls)
    /\ UNCHANGED <<gen, cycVars, onceVars, concVars>>

\* err = c.Lift(err), c.New("m"), c.Wrap(err, "m"), ... on a class of the
\* Lifter file
Lift(op, c) ==
    /\ gen = "select"
    /\ Building
    /\ Len(err) < MaxLen
    /\ err' = Lifter_method(op, c, err, "m")
    /\ last' = call(op, c, NoSelector, err, err', FALSE, FALSE, NoCalls)
    /\ UNCHANGED <<gen, cycVars, onceVars, concVars>>

\* ok, er := s.Traverse(err)
Query(s) ==
    /\ gen = "select"
    /\ Building
    /\ Len(err) <= MaxLen
    /\ LET r == Traverse(s, err)
       IN  last' = call("Traverse", NoClass, s, err, r.er, r.ok, FALSE, r.calls)
    /\ UNCHANGED <<gen, cycVars, onceVars, err, concVars>>

\* err = c.Wrapc(err), c.New("m"), c.Wrap(err, "m"), ... on a *Class of errsel.go
errsel_Lift(op, c) ==
    /\ gen = "errsel"
    /\ Building
    /\ Len(err) < MaxLen
    /\ err' = errsel_Class_method(op, c, err, "m")
    /\ last' = call(op, c, NoSelector, err, err', FALSE, FALSE, NoCalls)
    /\ UNCHANGED <<gen, cycVars, onceVars, concVars>>

\* e, ok := s.Query(err)
errsel_Evaluate(s) ==
    /\ gen = "errsel"
    /\ Building
    /\ Len(err) <= MaxLen
    /\ LET r == errsel_Query(s, err, traverseConfig(0, 0))
       IN  last' = call("Query", NoClass, s, err, r.e, r.ok, r.panic, r.calls)
    /\ UNCHANGED <<gen, cycVars, onceVars, err, concVars>>

\* Classes and lifters: every Lifter method of every class and composite, and
\* the classes' own selectors.
Next ==
    \/ NewError
    \/ NilError
    \/ WithMessage
    \/ \E op \in LiftOps, c \in LiftClasses \cup Composites : Lift(op, c)
    \/ \E s \in ClassSelectors : Query(s)
    \/ \E op \in errsel_LiftOps, c \in LiftPtrs : errsel_Lift(op, c)
    \/ \E s \in errsel_ClassSelectors : errsel_Evaluate(s)

Spec == Init /\ [][Next]_vars

\* The selector algebra: errors lifted into single classes, and the
\* combinators evaluated on them.
NextSel ==
    \/ NewError
    \/ NilError
    \/ WithMessage
    \/ \E c \in LiftClasses : Lift("Lift", c)
    \/ \E s \in Selectors : Query(s)
    \/ \E c \in LiftPtrs : errsel_Lift("Wrapc", c)
    \/ \E s \in errsel_Selectors : errsel_Evaluate(s)

SpecSel == Init /\ [][NextSel]_vars

----------------------------------------------------------------------------
(* AndC and OrC: one evaluation of AndC(ss...) or OrC(ss...) on err. The    *)
(* evaluating goroutine starts one goroutine per selector and waits for     *)
(* them; the goroutines interleave freely.                                  *)

\* the selectors handed to AndC and OrC: two without side effects and, in
\* select.go, a Call, whose f records that it ran
ConcSelectors(g) ==
    IF g = "select"
    THEN { classOf(PtrOf(3)).Selector, Root([p |-> "Type", kind |-> "withMessage"]),
           Call("f", Root([p |-> "Type", kind |-> "withMessage"])) }
    ELSE { errsel_Class(PtrOf(3)), errsel_Error(errors_New("a")) }

\* the errors they are evaluated on: errors.New("a"), that with a message,
\* and that lifted into Named("database") with a message
ConcErrs(g) ==
    { errors_New("a"),
      errors_WithMessage(errors_New("a"), "m"),
      errors_WithMessage(IF g = "select"
                         THEN class_lift(PtrOf(3), errors_New("a"))
                         ELSE errsel_Wrapc(PtrOf(3), errors_New("a")), "m") }

InitC ==
    /\ gen \in {"select", "errsel"}
    /\ CycIdle
    /\ err \in ConcErrs(gen)
    /\ last = NoCall
    /\ comb \in { [kind |-> k, ss |-> ss] :
                    k \in {"AndC", "OrC"}, ss \in SeqsUpTo(ConcSelectors(gen), MaxTasks) }
    /\ accum = FALSE
    /\ mu = 0
    /\ wg = 0
    /\ task = [t \in 1..Len(comb.ss) |->
                  [pc |-> "none", ok |-> FALSE, tmp |-> FALSE, calls |-> <<>>]]
    /\ main = [pc |-> "call", i |-> 1]
    /\ ret = [ok |-> FALSE, er |-> Nil]
    /\ OnceIdle

Tasks == DOMAIN task

\* the process runs: no goroutine has panicked
Running == main.pc # "panic"

\* accum = accum && ok in AndC, accum = accum || ok in OrC
conc_fold(kind, acc, ok) == IF kind = "AndC" THEN And_fold(acc, ok) ELSE Or_fold(acc, ok)

\* var ( accum = true; mu sync.Mutex; wg sync.WaitGroup ), accum false in OrC
AndC_vars ==
    /\ main.pc = "call"
    /\ accum' = (comb.kind = "AndC")
    /\ mu' = 0
    /\ wg' = 0
    /\ main' = [main EXCEPT !.pc = "range"]
    /\ UNCHANGED <<gen, cycVars, onceVars, seqVars, comb, task, ret>>

\* for _, s := range ss { wg.Add(1) ..., and the end of the loop
AndC_range ==
    /\ Running
    /\ main.pc = "range"
    /\ IF main.i <= Len(comb.ss)
       THEN /\ wg' = wg + 1
            /\ main' = [main EXCEPT !.pc = "go"]
       ELSE /\ wg' = wg
            /\ main' = [main EXCEPT !.pc = "wait"]
    /\ UNCHANGED <<gen, cycVars, onceVars, seqVars, comb, accum, mu, task, ret>>

\* go func(s Selector) { ... }(s)
AndC_go ==
    /\ Running
    /\ main.pc = "go"
    /\ task' = [task EXCEPT ![main.i].pc = "traverse"]
    /\ main' = [pc |-> "range", i |-> main.i + 1]
    /\ UNCHANGED <<gen, cycVars, onceVars, seqVars, comb, accum, mu, wg, ret>>

\* a Wait that does not wait
wg_Wait_passes(counter) == TRUE

\* wg.Wait() returns when the counter of wg is zero
wg_Wait(counter) == counter = 0

\* wg.Wait()
AndC_Wait ==
    /\ Running
    /\ main.pc = "wait"
    /\ wg_Wait(wg)
    /\ main' = [main EXCEPT !.pc = "return"]
    /\ UNCHANGED <<gen, cycVars, onceVars, seqVars, comb, accum, mu, wg, task, ret>>

\* return accum, through Root in select.go; return err, accum in errsel.go
AndC_return ==
    /\ Running
    /\ main.pc = "return"
    /\ ret' = IF gen = "select" THEN root_result(accum, err)
              ELSE [ok |-> accum, er |-> err]
    /\ main' = [main EXCEPT !.pc = "done"]
    /\ UNCHANGED <<gen, cycVars, onceVars, seqVars, comb, accum, mu, wg, task>>

\* ok, _ := s.Traverse(err) in select.go; ok := s.In(err, opts...) in
\* errsel.go, where a panic of s in the goroutine ends the process
go_Traverse(t) ==
    /\ Running
    /\ task[t].pc = "traverse"
    /\ IF gen = "select"
       THEN /\ task' = [task EXCEPT ![t].pc = "Lock",
                                    ![t].ok = Traverse(comb.ss[t], err).ok,
                                    ![t].calls = Traverse(comb.ss[t], err).calls]
            /\ main' = main
       ELSE LET r == errsel_Query(comb.ss[t], err, traverseConfig(0, 0))
            IN  IF r.panic
                THEN /\ task' = [task EXCEPT ![t].pc = "panic"]
                     /\ main' = [main EXCEPT !.pc = "panic"]
                ELSE /\ task' = [task EXCEPT ![t].pc = "Lock", ![t].ok = r.ok]
                     /\ main' = main
    /\ UNCHANGED <<gen, cycVars, onceVars, seqVars, comb, accum, mu, wg, ret>>

\* a Lock that does not exclude
mu_Lock_open(holder) == TRUE

\* mu.Lock() returns when no goroutine holds mu
mu_Lock(holder) == holder = 0

\* mu.Lock()
go_Lock(t) ==
    /\ Running
    /\ task[t].pc = "Lock"
    /\ mu_Lock(mu)
    /\ mu' = t
    /\ task' = [task EXCEPT ![t].pc = "read"]
    /\ UNCHANGED <<gen, cycVars, onceVars, seqVars, comb, accum, wg, main, ret>>

\* accum = accum && ok: the read of accum
go_read(t) ==
    /\ Running
    /\ task[t].pc = "read"
    /\ task' = [task EXCEPT ![t].pc = "write", ![t].tmp = accum]
    /\ UNCHANGED <<gen, cycVars, onceVars, seqVars, comb, accum, mu, wg, main, ret>>

\* accum = accum && ok: the write of accum
go_write(t) ==
    /\ Running
    /\ task[t].pc = "write"
    /\ accum' = conc_fold(comb.kind, task[t].tmp, task[t].ok)
    /\ task' = [task EXCEPT ![t].pc = "Unlock"]
    /\ UNCHANGED <<gen, cycVars, onceVars, seqVars, comb, mu, wg, main, ret>>

\* mu.Unlock()
go_Unlock(t) ==
    /\ Running
    /\ task[t].pc = "Unlock"
    /\ mu' = 0
    /\ task' = [task EXCEPT ![t].pc = "Done"]
    /\ UNCHANGED <<gen, cycVars, onceVars, seqVars, comb, accum, wg, main, ret>>

\* wg.Done()
go_Done(t) ==
    /\ Running
    /\ task[t].pc = "Done"
    /\ wg' = wg - 1
    /\ task' = [task EXCEPT ![t].pc = "exit"]
    /\ UNCHANGED <<gen, cycVars, onceVars, seqVars, comb, accum, mu, main, ret>>

NextC ==
    \/ AndC_vars
    \/ AndC_range
    \/ AndC_go
    \/ AndC_Wait
    \/ AndC_return
    \/ \E t \in Tasks : go_Traverse(t)
    \/ \E t \in Tasks : go_Lock(t)
    \/ \E t \in Tasks : go_read(t)
    \/ \E t \in Tasks : go_write(t)
    \/ \E t \in Tasks : go_Unlock(t)
    \/ \E t \in Tasks : go_Done(t)

SpecC == InitC /\ [][NextC]_vars

----------------------------------------------------------------------------
(* Once: one selector o = Once(f, s), built once and evaluated by several   *)
(* goroutines, each of them one evaluation after another. once.Do is        *)
(* sync.Once.Do of the Go library: a load of done, and then, under the      *)
(* mutex m, a second look at done, f, and the deferred store of done.        *)

InitOnce ==
    /\ gen \in {"select", "errsel"}
    /\ CycIdle
    /\ err = Nil
    /\ last = NoCall
    /\ ConcIdle
    /\ once \in { [s |-> s, done |-> 0, m |-> 0] : s \in ConcSelectors(gen) }
    /\ ev = [t \in 1..MaxGoroutines |-> [pc |-> "idle", e |-> Nil, ok |-> FALSE, er |-> Nil]]
    /\ fcalls = <<>>
    /\ started = 0
    /\ returned = [hit |-> 0, miss |-> 0]

Goroutines == DOMAIN ev

\* the process runs: no evaluation has panicked
OnceRunning == \A t \in Goroutines : ev[t].pc # "panic"

\* the slip of a Do that does not look at done again under the mutex
doSlow_first_unchecked(done) == TRUE

\* if o.done == 0, under the mutex
doSlow_first(done) == done = 0

\* o.Traverse(e) in select.go, o.Query(e) in errsel.go: the call
Once_call(t, e) ==
    /\ OnceRunning
    /\ ev[t].pc = "idle"
    /\ started < MaxEvals
    /\ started' = started + 1
    /\ ev' = [ev EXCEPT ![t] = [pc |-> "Traverse", e |-> e, ok |-> FALSE, er |-> Nil]]
    /\ UNCHANGED <<gen, cycVars, seqVars, concVars, once, fcalls, returned>>

\* ok, er := s.Traverse(err); if ok { once.Do ... } in select.go,
\* e, ok := selector.Query(err, opts...) in errsel.go, where s may panic
Once_Traverse(t) ==
    /\ OnceRunning
    /\ ev[t].pc = "Traverse"
    /\ IF gen = "select"
       THEN LET r == Traverse(once.s, ev[t].e)
            IN  ev' = [ev EXCEPT ![t].ok = r.ok, ![t].er = r.er,
                                 ![t].pc = IF r.ok THEN "Do" ELSE "return"]
       ELSE LET r == errsel_Query(once.s, ev[t].e, traverseConfig(0, 0))
            IN  IF r.panic
                THEN ev' = [ev EXCEPT ![t].pc = "panic"]
                ELSE ev' = [ev EXCEPT ![t].ok = r.ok, ![t].er = r.e,
                                      ![t].pc = IF r.ok THEN "Do" ELSE "return"]
    /\ UNCHANGED <<gen, cycVars, seqVars, concVars, once, fcalls, started, returned>>

\* once.Do: if atomic.LoadUint32(&o.done) == 0 { o.doSlow(f) }
Do_load(t) ==
    /\ OnceRunning
    /\ ev[t].pc = "Do"
    /\ ev' = [ev EXCEPT ![t].pc = IF once.done = 0 THEN "Lock" ELSE "return"]
    /\ UNCHANGED <<gen, cycVars, seqVars, concVars, once, fcalls, started, returned>>

\* doSlow: o.m.Lock()
Do_Lock(t) ==
    /\ OnceRunning
    /\ ev[t].pc = "Lock"
    /\ once.m = 0
    /\ once' = [once EXCEPT !.m = t]
    /\ ev' = [ev EXCEPT ![t].pc = "doSlow"]
    /\ UNCHANGED <<gen, cycVars, seqVars, concVars, fcalls, started, returned>>

\* doSlow: if o.done == 0 { defer atomic.StoreUint32(&o.done, 1); f() }
Do_doSlow(t) ==
    /\ OnceRunning
    /\ ev[t].pc = "doSlow"
    /\ ev' = [ev EXCEPT ![t].pc = IF doSlow_first(once.done) THEN "f" ELSE "Unlock"]
    /\ UNCHANGED <<gen, cycVars, seqVars, concVars, once, fcalls, started, returned>>

\* f(er) in select.go, f(err) in errsel.go: f begins
Once_f(t) ==
    /\ OnceRunning
    /\ ev[t].pc = "f"
    /\ fcalls' = Append(fcalls, IF gen = "select" THEN ev[t].er ELSE ev[t].e)
    /\ ev' = [ev EXCEPT ![t].pc = "in f"]
    /\ UNCHANGED <<gen, cycVars, seqVars, concVars, once, started, returned>>

\* f returns, and the deferred atomic.StoreUint32(&o.done, 1) runs
Do_Store(t) ==
    /\ OnceRunning
    /\ ev[t].pc = "in f"
    /\ once' = [once EXCEPT !.done = 1]
    /\ ev' = [ev EXCEPT ![t].pc = "Unlock"]
    /\ UNCHANGED <<gen, cycVars, seqVars, concVars, fcalls, started, returned>>

\* the deferred o.m.Unlock()
Do_Unlock(t) ==
    /\ OnceRunning
    /\ ev[t].pc = "Unlock"
    /\ once' = [once EXCEPT !.m = 0]
    /\ ev' = [ev EXCEPT ![t].pc = "return"]
    /\ UNCHANGED <<gen, cycVars, seqVars, concVars, fcalls, started, returned>>

\* return ok in select.go, return e, ok in errsel.go
Once_return(t) ==
    /\ OnceRunning
    /\ ev[t].pc = "return"
    /\ returned' = IF ev[t].ok THEN [returned EXCEPT !.hit = @ + 1]
                   ELSE [returned EXCEPT !.miss = @ + 1]
    /\ ev' = [ev EXCEPT ![t] = [pc |-> "idle", e |-> Nil, ok |-> FALSE, er |-> Nil]]
    /\ UNCHANGED <<gen, cycVars, seqVars, concVars, once, fcalls, started>>

NextOnce ==
    \/ \E t \in Goroutines, e \in ConcErrs(gen) : Once_call(t, e)
    \/ \E t \in Goroutines : Once_Traverse(t)
    \/ \E t \in Goroutines : Do_load(t)
    \/ \E t \in Goroutines : Do_Lock(t)
    \/ \E t \in Goroutines : Do_doSlow(t)
    \/ \E t \in Goroutines : Once_f(t)
    \/ \E t \in Goroutines : Do_Store(t)
    \/ \E t \in Goroutines : Do_Unlock(t)
    \/ \E t \in Goroutines : Once_return(t)

SpecOnce == InitOnce /\ [][NextOnce]_vars

----------------------------------------------------------------------------
(* Traversal with options: Causes and Classes built with Lens(k) and        *)
(* Depth(d), and, in errsel.go, Class.Query, CausesOf and ClassesOf called  *)
(* with them, on every chain of up to MaxChain nodes.                       *)

\* the classes of the chains: Anonymous(), Named("database"), AnonymousShadow()
TravPtrs == { p \in ClassPtrs : p.id \in {1, 3, 6} }

\* the chains of at most n nodes: errors.New("a"), wrapped with
\* errors.WithMessage and lifted into the classes
RECURSIVE ChainsOf(_)
ChainsOf(n) ==
    IF n <= 1 THEN { errors_New("a") }
    ELSE LET S == ChainsOf(n - 1)
         IN  S \cup { errors_WithMessage(e, "m") : e \in S }
               \cup { class_lift(c, e) : c \in TravPtrs, e \in S }

\* the configurations that Lens(k) and Depth(d) make
Cfgs == { traverseConfig(k, d) : k \in 0..MaxOpt, d \in 0..MaxOpt }

\* f := func(e error) bool { seen = append(seen, e); return false }
probe == [p |-> "probe", name |-> "f", v |-> FALSE]

TravSelectors ==
    { Classes([p |-> "class.in", c |-> c], cfg) : c \in TravPtrs, cfg \in Cfgs }
    \cup { Causes(probe, cfg) : cfg \in Cfgs }
    \cup { Classes(probe, cfg) : cfg \in Cfgs }

\* c.Query(err, Lens(k), Depth(d)), CausesOf(err, ...) and ClassesOf(err, ...)
errsel_opts(t, c, cfg) == [t |-> t, c |-> c, cfg |-> cfg]

InitTrav ==
    /\ gen \in {"select", "errsel"}
    /\ CycIdle
    /\ err \in ChainsOf(MaxChain)
    /\ last = NoCall
    /\ ConcIdle
    /\ OnceIdle

\* the program has built its error and not yet queried it; a query leaves
\* the error as it is, so that one query per run reaches every result
Fresh == last = NoCall

\* ok, er := s.Traverse(err), s built with options
TraverseOpts(s) ==
    /\ gen = "select"
    /\ Fresh
    /\ LET r == Traverse(s, err)
       IN  last' = call("Traverse", NoClass, s, err, r.er, r.ok, FALSE, r.calls)
    /\ UNCHANGED <<gen, cycVars, onceVars, err, concVars>>

\* e, ok := c.Query(err, Lens(k), Depth(d))
errsel_QueryOpts(c, cfg) ==
    /\ gen = "errsel"
    /\ Fresh
    /\ LET r == errsel_Class_Query(c, err, cfg)
       IN  last' = call("Class.Query", c, errsel_opts("Class", c, cfg), err, r.e, r.ok,
                        r.panic, NoCalls)
    /\ UNCHANGED <<gen, cycVars, onceVars, err, concVars>>

\* errs := CausesOf(err, Lens(k), Depth(d))
errsel_CausesOfOpts(cfg) ==
    /\ gen = "errsel"
    /\ Fresh
    /\ last' = call("CausesOf", NoClass, errsel_opts("CausesOf", NoClass, cfg), err,
                    errsel_CausesOf(err, cfg), FALSE, FALSE, NoCalls)
    /\ UNCHANGED <<gen, cycVars, onceVars, err, concVars>>

\* classes := ClassesOf(err, Lens(k), Depth(d))
errsel_ClassesOfOpts(cfg) ==
    /\ gen = "errsel"
    /\ Fresh
    /\ LET r == errsel_ClassesOf(err, cfg)
       IN  last' = call("ClassesOf", NoClass, errsel_opts("ClassesOf", NoClass, cfg), err,
                        r.v, FALSE, r.panic, NoCalls)
    /\ UNCHANGED <<gen, cycVars, onceVars, err, concVars>>

\* the errors handed to Error: each node of the chain, and two errors made
\* apart from it. Every error made apart from the chain differs from its
\* nodes in its text, so that equal values are the same allocation.
Targets(e) ==
    { SubSeq(e, i, Len(e)) : i \in 1..Len(e) }
    \cup { errors_New("b"), errors_WithMessage(errors_New("b"), "m") }

\* ok, er := Error(target).Traverse(err)
Error_Traverse(target) ==
    /\ gen = "select"
    /\ Fresh
    /\ LET s == Error(target, traverseConfig(0, 0))
           r == Traverse(s, err)
       IN  last' = call("Traverse", NoClass, s, err, r.er, r.ok, FALSE, r.calls)
    /\ UNCHANGED <<gen, cycVars, onceVars, err, concVars>>

\* e, ok := Error(target).Query(err)
errsel_Error_Query(target) ==
    /\ gen = "errsel"
    /\ Fresh
    /\ LET s == errsel_Error(target)
           r == errsel_Query(s, err, traverseConfig(0, 0))
       IN  last' = call("Query", NoClass, s, err, r.e, r.ok, r.panic, r.calls)
    /\ UNCHANGED <<gen, cycVars, onceVars, err, concVars>>

NextTrav ==
    \/ \E s \in TravSelectors : TraverseOpts(s)
    \/ \E target \in Targets(err) : Error_Traverse(target)
    \/ \E target \in Targets(err) : errsel_Error_Query(target)
    \/ \E c \in TravPtrs, cfg \in Cfgs : errsel_QueryOpts(c, cfg)
    \/ \E cfg \in Cfgs : errsel_CausesOfOpts(cfg)
    \/ \E cfg \in Cfgs : errsel_ClassesOfOpts(cfg)

SpecTrav == InitTrav /\ [][NextTrav]_vars

----------------------------------------------------------------------------
(* What the claims speak of. *)

\* x and y are the same annotation: the identical instance, or both named
\* with equal names
SameClass(x, y) == x.id = y.id \/ (x.named /\ y.named /\ x.name = y.name)

\* the classes of the annotated nodes of e, outermost first
ClassesIn(e) == [i \in 1..Len(SelectSeq(e, LAMBDA n : n.kind = "classErr")) |->
                    SelectSeq(e, LAMBDA n : n.kind = "classErr")[i].cls]

\* some annotated node of e carries c or a class of c's name
Carries(e, c) == \E i \in 1..Len(e) : e[i].kind = "classErr" /\ SameClass(e[i].cls, c)

\* the last call lifted a non-nil error, or made a new one, with a Lifter method
Lifted ==
    /\ gen = "select"
    /\ last.op \in LiftOps
    /\ last.op \in {"New", "Errorf"} \/ last.arg # Nil

\* the last call was s.Traverse(last.arg)
Traversed(s) == gen = "select" /\ last.op = "Traverse" /\ last.sel = s

\* C1: a class built by Anonymous, Named, AnonymousShadow or NamedShadow
\* matches every error it has wrapped, lifted or made, and matches no error
\* in whose chain no annotated node carries it or a class of its name.
C1_InOwnLift ==
    /\ \A c \in LiftClasses :
          Lifted /\ last.cls = c => In(c.Selector, last.out)
    /\ \A c \in ClassPtrs :
          Traversed(classOf(c).Selector) /\ ~Carries(last.arg, c) => ~last.ok

C1_Witness ==
    /\ Lifted
    /\ last.op = "Wrap"
    /\ last.cls = classOf(PtrOf(6))
    /\ Carries(last.arg, PtrOf(7))
    /\ In(last.cls.Selector, last.out)

C3_NilLiftsToNil ==
    /\ last.op \in {"Lift", "Wrapc", "WithStack", "WithMessage", "Wrap", "Wrapf"}
    /\ last.arg = Nil
    => last.out = Nil

\* C4: the selector of Bind(f, g) matches e exactly when f and g both match
\* e, and returns e on a match and nil otherwise; an error of
\* Bind(Named("database"), NamedShadow("conflict")).New is matched by both, an
\* error of Named("database").New by database but not by the composite.
C4_BindSelector ==
    /\ \A f, g \in BindPrims :
          Traversed(Bind(f, g).Selector) =>
              LET both == In(f.Selector, last.arg) /\ In(g.Selector, last.arg)
              IN  /\ last.ok = both
                  /\ last.out = IF both THEN last.arg ELSE Nil
    /\ LET database == classOf(PtrOf(3))
           conflict == Bind(database, classOf(PtrOf(7)))
       IN  /\ Lifted /\ last.op = "New" /\ last.cls = conflict =>
                 In(database.Selector, last.out) /\ In(conflict.Selector, last.out)
           /\ Lifted /\ last.op = "New" /\ last.cls = database =>
                 In(database.Selector, last.out) /\ ~In(conflict.Selector, last.out)

C4_Witness ==
    LET database == classOf(PtrOf(3))
        conflict == Bind(database, classOf(PtrOf(7)))
    IN  /\ Traversed(conflict.Selector)
        /\ last.arg = LifterFunc_New(conflict.Lifter, "m")
        /\ last.ok
        /\ last.out = last.arg

\* C5: the error Binds(f, g1..gn).Lift(e) of a non-nil e is matched by the
\* composite and by each of f, g1, .., gn.
C5_BindsMatchedByAll ==
    \A f \in BindPrims, gs \in SeqsUpTo(BindPrims, MaxBinds) \ {<<>>} :
        Lifted /\ last.op = "Lift" /\ last.cls = Binds(f, gs) =>
            /\ In(last.cls.Selector, last.out)
            /\ In(f.Selector, last.out)
            /\ \A i \in 1..Len(gs) : In(gs[i].Selector, last.out)

\* the last call was s.Query(last.arg) of errsel.go, and it returned
Evaluated(s) == gen = "errsel" /\ last.op = "Query" /\ last.sel = s /\ ~last.panic

\* C6: And(s1..sn) matches e iff every si matches e, Or(s1..sn) iff some si
\* matches e, for n >= 0; the error returned is e on a match and nil otherwise.
C6_AndOr ==
    \A ss \in SeqsUpTo(BaseSelectors, MaxArgs) :
        /\ Traversed(And(ss)) =>
              LET all == \A i \in 1..Len(ss) : In(ss[i], last.arg)
              IN  last.ok = all /\ last.out = IF all THEN last.arg ELSE Nil
        /\ Traversed(Or(ss)) =>
              LET some == \E i \in 1..Len(ss) : In(ss[i], last.arg)
              IN  last.ok = some /\ last.out = IF some THEN last.arg ELSE Nil

\* And of a matching and a missing selector, on an error that Or of the
\* same two matches
C6_Witness ==
    \E ss \in SeqsUpTo(BaseSelectors, MaxArgs) :
        /\ Len(ss) = MaxArgs
        /\ Traversed(And(ss))
        /\ last.arg # Nil
        /\ ~last.ok
        /\ In(ss[1], last.arg)
        /\ In(Or(ss), last.arg)

\* the calls of f that the last evaluation made
CallsOf(f) == SelectSeq(last.calls, LAMBDA c : c.f = f)

\* C9: in both generations an evaluation of Call(f, s) on e invokes f once
\* if s matches e and not at all otherwise, and hands f the matched error
\* that s returned.
C9_CallArgument ==
    /\ \A s \in BaseSelectors :
          Traversed(Call("f", s)) =>
              LET r == Traverse(s, last.arg)
              IN  CallsOf("f") = IF r.ok THEN <<[f |-> "f", arg |-> r.er]>> ELSE <<>>
    /\ \A s \in errsel_BaseSelectors :
          Evaluated(errsel_Call("f", s)) =>
              LET r == errsel_Query(s, last.arg, traverseConfig(0, 0))
              IN  CallsOf("f") = IF r.ok THEN <<[f |-> "f", arg |-> r.e]>> ELSE <<>>

\* C10: Call(f, s) returns the match flag and the matched node that s
\* returns, in both generations.
C10_CallPassThrough ==
    /\ \A s \in BaseSelectors :
          Traversed(Call("f", s)) =>
              LET r == Traverse(s, last.arg)
              IN  last.ok = r.ok /\ last.out = r.er
    /\ \A s \in errsel_BaseSelectors :
          Evaluated(errsel_Call("f", s)) =>
              LET r == errsel_Query(s, last.arg, traverseConfig(0, 0))
              IN  last.ok = r.ok /\ last.out = r.e

\* what And(ss...) or Or(ss...), evaluated on err by the evaluating goroutine
\* alone, returns: [ok, er, panic]
Sequential ==
    IF gen = "select"
    THEN LET r == Traverse(IF comb.kind = "AndC" THEN And(comb.ss) ELSE Or(comb.ss), err)
         IN  [ok |-> r.ok, er |-> r.er, panic |-> FALSE]
    ELSE LET r == errsel_Query(IF comb.kind = "AndC" THEN errsel_And(comb.ss)
                               ELSE errsel_Or(comb.ss), err, traverseConfig(0, 0))
         IN  [ok |-> r.ok, er |-> r.e, panic |-> r.panic]

\* C7: on selectors without side effects, AndC(ss...) ends as And(ss...) does
\* and OrC(ss...) as Or(ss...) does, however the goroutines interleave: when
\* the evaluation returns, And or Or returns the same (bool, error), and the
\* process ends in a panic only where And or Or panics.
C7_SameAsSequential ==
    /\ main.pc = "done" => ~Sequential.panic /\ ret = [ok |-> Sequential.ok, er |-> Sequential.er]
    /\ main.pc = "panic" => Sequential.panic

\* C7 in select.go alone
C7_SameAsSequential_select == gen = "select" => C7_SameAsSequential

\* the goroutines inside f
InF == { t \in Goroutines : ev[t].pc = "in f" }

\* an evaluation of o has matched: one that returned, or one under way
Matched == returned.hit > 0 \/ \E t \in Goroutines : ev[t].ok

\* C8: over any number of evaluations of one Once(f, s), one after another or
\* at the same time, f is never called twice nor by two goroutines at once;
\* once an evaluation that matched has returned, f has run exactly once and
\* to its end; and while no evaluation has matched, f has not been called.
C8_OnceExactlyOnce ==
    /\ Len(fcalls) <= 1
    /\ Cardinality(InF) <= 1
    /\ returned.hit > 0 => Len(fcalls) = 1 /\ InF = {} /\ once.done = 1
    /\ ~Matched => fcalls = <<>>

\* a goroutine is inside f while another, whose evaluation matched as well,
\* waits for the mutex of once
C8_Witness ==
    \E t, u \in Goroutines :
        /\ t # u
        /\ ev[t].pc = "in f"
        /\ ev[u].pc = "Lock" /\ ev[u].ok
        /\ Len(fcalls) = 1

\* the last call was s.Query(last.arg) of errsel.go, returned or panicked
Queried(s) == gen = "errsel" /\ last.op = "Query" /\ last.sel = s

\* the evaluation q of s ended as the last call did, with the opposite bool
\* (same = FALSE) or the same bool
SameEnd(q, same) ==
    /\ last.panic = q.panic
    /\ ~q.panic => last.ok = IF same THEN q.ok ELSE ~q.ok

\* C11: in both files Not(s) matches e exactly when s does not, and
\* Not(Not(s)) exactly when s does; in errsel.go, where a class query can
\* panic, Not(s) panics exactly when s does.
C11_NotInverts ==
    /\ \A s \in BaseSelectors :
          /\ Traversed(Not(s)) => last.ok = ~In(s, last.arg)
          /\ Traversed(Not(Not(s))) => last.ok = In(s, last.arg)
    /\ \A s \in errsel_BaseSelectors :
          LET q == errsel_Query(s, last.arg, traverseConfig(0, 0))
          IN  /\ Queried(errsel_Not(s)) => SameEnd(q, FALSE)
              /\ Queried(errsel_Not(errsel_Not(s))) => SameEnd(q, TRUE)

\* Not(Not(s)) evaluated on an error that s matches, s a class selector
C11_Witness ==
    /\ Traversed(Not(Not(classOf(PtrOf(3)).Selector)))
    /\ last.ok
    /\ In(classOf(PtrOf(3)).Selector, last.arg)
    /\ ~In(Not(classOf(PtrOf(3)).Selector), last.arg)

\* the node of e at index i, node 0 being e itself: a node is the chain from
\* it down
NodeAt(e, i) == SubSeq(e, i + 1, Len(e))

\* the nodes of e, outermost first
Nodes(e) == [i \in 1..Len(e) |-> NodeAt(e, i - 1)]

\* the annotated nodes of e, outermost first
ClassNodes(e) == SelectSeq(Nodes(e), IsClassErr)

\* the last call was a query for class c with options cfg, of either file
ClassQueried(c, cfg) ==
    \/ /\ gen = "select"
       /\ last.op = "Traverse"
       /\ last.sel = Classes([p |-> "class.in", c |-> c], cfg)
    \/ /\ gen = "errsel"
       /\ last.op = "Class.Query"
       /\ last.sel = errsel_opts("Class", c, cfg)

\* the outermost annotated node of e carries a shadowing class and the next
\* one carries h, another class
ShadowOver(e, h) ==
    /\ Len(ClassNodes(e)) >= 2
    /\ Head(ClassNodes(e)[1]).cls.shadow
    /\ Head(ClassNodes(e)[2]).cls = h
    /\ ~SameClass(Head(ClassNodes(e)[1]).cls, h)

\* C12: on an error whose outermost annotated node carries a shadowing class
\* and whose next annotated node carries class h, a query for h without lens
\* does not match, and with Lens(k), k >= 1, it matches the node of h.
C12_LensSkipsShadow ==
    \A h \in TravPtrs, k \in 0..MaxOpt :
        ClassQueried(h, traverseConfig(k, 0)) /\ ShadowOver(last.arg, h) =>
            /\ ~last.panic
            /\ k = 0 => ~last.ok
            /\ k >= 1 => last.ok /\ last.out = ClassNodes(last.arg)[2]

\* the index in e of the node x that f was applied to
IndexIn(e, x) == Len(e) - Len(x)

\* the indexes of the nodes of last.arg that the probe was applied to, in order
Examined == [i \in 1..Len(last.calls) |-> IndexIn(last.arg, last.calls[i].arg)]

Min(a, b) == IF a < b THEN a ELSE b

\* C13: Causes(f, Lens(k)) over a chain of n nodes applies f to no node of
\* index below k when k < n and to the last node alone when k >= n, and it
\* always applies f to some node.
C13_CausesLens ==
    \A k \in 0..MaxOpt :
        Traversed(Causes(probe, traverseConfig(k, 0))) =>
            LET n == Len(last.arg)
            IN  /\ Len(Examined) >= 1
                /\ \A i \in 1..Len(Examined) : Examined[i] >= Min(k, n - 1)

\* the indexes 0 .. m-1, in order
FirstNodes(m) == [i \in 1..m |-> i - 1]

\* C14: Causes(f, Depth(d)), no lens, applies f to every node of the chain
\* when d = 0, and to its first d+1 nodes, or to all of them if there are
\* fewer, when d > 0.
C14_CausesDepth ==
    \A d \in 0..MaxOpt :
        Traversed(Causes(probe, traverseConfig(0, d))) =>
            LET n == Len(last.arg)
            IN  Examined = IF d = 0 THEN FirstNodes(n) ELSE FirstNodes(Min(d + 1, n))

\* target is, by reference, a node of the chain of e, e itself included
Occurs(target, e) == \E i \in 1..Len(e) : NodeAt(e, i - 1) = target

\* C15: in both files Error(target), with no options, matches e exactly when
\* target is by reference a node of the cause chain of e, e included.
C15_ErrorByReference ==
    \A target \in Targets(last.arg) :
        \/ Traversed(Error(target, traverseConfig(0, 0)))
        \/ Queried(errsel_Error(target))
        => ~last.panic /\ last.ok = Occurs(target, last.arg)

\* C15 in select.go alone
C15_ErrorByReference_select == gen = "select" => C15_ErrorByReference

\* C16: on a non-nil error and with any Lens(k) and Depth(d), Class.Query
\* (and Class.In with it) and ClassesOf return and do not panic, also when no
\* node of the chain is annotated; a Query that does not find the class
\* returns the error it was given, and false.
C16_QueryNeverFails ==
    gen = "errsel" /\ last.op \in {"Class.Query", "ClassesOf"} /\ last.arg # Nil =>
        /\ ~last.panic
        /\ last.op = "Class.Query" /\ ~last.ok => last.out = last.arg

\* C16 for the calls that return
C16_NotFoundReturnsErr ==
    gen = "errsel" /\ last.op = "Class.Query" /\ ~last.panic /\ ~last.ok =>
        last.out = last.arg

\* the last call was CausesOf(last.arg) with no options
CausesOfCalled ==
    /\ gen = "errsel"
    /\ last.op = "CausesOf"
    /\ last.sel.cfg = traverseConfig(0, 0)

\* C17: CausesOf(err) with no options returns the chain of err in order:
\* err first, then the cause of each element, down to the first node without
\* cause, each node once; the recursive causesOf returns the same.
C17_CausesOfWholeChain ==
    CausesOfCalled =>
        /\ last.out = Nodes(last.arg)
        /\ last.out = causesOf(last.arg, traverseConfig(0, 0))

\* the recursive causesOf returns the chain of err in order
C17_Reference ==
    CausesOfCalled => causesOf(last.arg, traverseConfig(0, 0)) = Nodes(last.arg)

\* the annotated nodes of e down to the first shadowing one, that one included
RECURSIVE UpToShadow(_)
UpToShadow(ns) ==
    IF ns = <<>> THEN <<>>
    ELSE IF Head(Head(ns)).cls.shadow THEN <<Head(ns)>>
    ELSE <<Head(ns)>> \o UpToShadow(Tail(ns))

Visible(e) == { UpToShadow(ClassNodes(e))[i] : i \in 1..Len(UpToShadow(ClassNodes(e))) }

\* C18: with no lens a class query matches the first shadowing annotated
\* node and the annotated nodes above it, and neither matches nor reports an
\* annotated node below the first shadowing one: the node a query returns is
\* one of those; with no depth limit the query for c matches exactly when one
\* of those carries c, and ClassesOf reports exactly their classes.
C18_ShadowInclusive ==
    /\ \A c \in TravPtrs, d \in 0..MaxOpt :
          ClassQueried(c, traverseConfig(0, d)) /\ ~last.panic =>
              /\ last.ok => last.out \in Visible(last.arg)
              /\ d = 0 => last.ok = \E n \in Visible(last.arg) : SameClass(Head(n).cls, c)
    /\ \A d \in 0..MaxOpt :
          Traversed(Classes(probe, traverseConfig(0, d))) =>
              \A i \in 1..Len(last.calls) : last.calls[i].arg \in Visible(last.arg)
    /\ gen = "errsel" /\ last.op = "ClassesOf" /\ ~last.panic
          /\ last.sel.cfg = traverseConfig(0, 0) =>
              last.out = [i \in 1..Len(UpToShadow(ClassNodes(last.arg))) |->
                              Head(UpToShadow(ClassNodes(last.arg))[i]).cls]

\* C18 in traverse.go alone
C18_ShadowInclusive_select == gen = "select" => C18_ShadowInclusive

\* of the annotated nodes ns: the first k skipped (the last one kept when
\* there are no more than k), then the next d+1 (all when d = 0), cut behind
\* the first shadowing one
Admitted(ns, k, d) ==
    LET lensed == IF k < Len(ns) THEN SubSeq(ns, k + 1, Len(ns))
                  ELSE IF ns = <<>> THEN <<>>
                  ELSE SubSeq(ns, Len(ns), Len(ns))
        cut == IF d # 0 /\ Len(lensed) > d THEN SubSeq(lensed, 1, d + 1) ELSE lensed
    IN  UpToShadow(cut)

\* C19: Classes(f, Lens(k), Depth(d)) and ClassesOf with the same options
\* count annotated nodes only: they skip the first k annotated nodes and
\* admit the next d+1 of them, however many nodes without class lie before
\* or between them.
C19_ClassesCountAnnotated ==
    \A cfg \in Cfgs :
        /\ Traversed(Classes(probe, cfg)) =>
              [i \in 1..Len(last.calls) |-> last.calls[i].arg]
                  = Admitted(ClassNodes(last.arg), cfg.lens, cfg.depth)
        /\ gen = "errsel" /\ last.op = "ClassesOf" /\ last.sel.cfg = cfg /\ ~last.panic =>
              last.out = [i \in 1..Len(Admitted(ClassNodes(last.arg), cfg.lens, cfg.depth)) |->
                              Head(Admitted(ClassNodes(last.arg), cfg.lens, cfg.depth)[i]).cls]

\* the functions that the last evaluation called, in order
Called == [i \in 1..Len(last.calls) |-> last.calls[i].f]

\* what an evaluation calls that evaluates Call("f", s) and then Call("g", t),
\* each once: f if s matches, then g if t matches
BothEvaluated(sOk, tOk) ==
    (IF sOk THEN <<"f">> ELSE <<>>) \o (IF tOk THEN <<"g">> ELSE <<>>)

\* s of errsel.go matches e: its query returns true
errsel_In(s, e) ==
    LET q == errsel_Query(s, e, traverseConfig(0, 0)) IN ~q.panic /\ q.ok

\* C20: in both files an evaluation of And or Or evaluates every argument
\* once and in order, also when the result is decided: And(Call(f, s),
\* Call(g, t)) and Or(Call(f, s), Call(g, t)) call f when s matches and then
\* g when t matches, whatever the other argument returned.
C20_AndOrEvaluateAll ==
    /\ \A s, t \in BaseSelectors :
          Traversed(And(<<Call("f", s), Call("g", t)>>))
          \/ Traversed(Or(<<Call("f", s), Call("g", t)>>))
          => Called = BothEvaluated(In(s, last.arg), In(t, last.arg))
    /\ \A s, t \in errsel_BaseSelectors :
          Evaluated(errsel_And(<<errsel_Call("f", s), errsel_Call("g", t)>>))
          \/ Evaluated(errsel_Or(<<errsel_Call("f", s), errsel_Call("g", t)>>))
          => Called = BothEvaluated(errsel_In(s, last.arg), errsel_In(t, last.arg))

\* C20 in select.go alone
C20_AndOrEvaluateAll_select == gen = "select" => C20_AndOrEvaluateAll

\* the evaluating goroutine is past wg.Wait()
Returning == main.pc \in {"return", "done"}

\* goroutine t has evaluated its selector, f of a Call in it included, has
\* folded the result into accum, and has ended
Finished(t) ==
    /\ task[t].pc = "exit"
    /\ gen = "select" =>
          /\ task[t].ok = Traverse(comb.ss[t], err).ok
          /\ task[t].calls = Traverse(comb.ss[t], err).calls

\* C21: AndC and OrC return only after every goroutine they started has
\* evaluated its selector, run the f of a Call in it, folded its result into
\* accum and ended, also when the result was decided before; no goroutine
\* runs on after the return.
C21_Barrier == Returning => \A t \in Tasks : Finished(t)

\* AndC has returned false; its first selector missed, which decided the
\* result, and f of the Call handed in second has run all the same
C21_Witness ==
    /\ gen = "select"
    /\ main.pc = "done"
    /\ comb.kind = "AndC"
    /\ Len(comb.ss) >= 2
    /\ ~task[1].ok
    /\ comb.ss[2] = Call("f", Root([p |-> "Type", kind |-> "withMessage"]))
    /\ Len(task[2].calls) = 1
    /\ ~ret.ok

\* the goroutines inside accum = accum && ok (|| in OrC): about to read
\* accum, or about to write it
InFold == { t \in Tasks : task[t].pc \in {"read", "write"} }

\* the goroutines that have written accum
Folded == { t \in Tasks : task[t].pc \in {"Unlock", "Done", "exit"} }

\* accum folded from its first value over the results of the goroutines in T
FoldOf(T) ==
    IF comb.kind = "AndC" THEN \A t \in T : task[t].ok ELSE \E t \in T : task[t].ok

\* C22: in AndC and OrC of both files no two goroutines are inside the
\* read-modify-write of accum at once, and the goroutine inside it holds mu;
\* no contribution is lost, accum being at every moment the fold of the
\* results of the goroutines that have written it; and the caller reads
\* accum only after the last write, so that the bool returned is the fold of
\* them all.
C22_MutualExclusion ==
    /\ Cardinality(InFold) <= 1
    /\ \A t \in InFold : mu = t
    /\ main.pc \notin {"none", "call"} => accum = FoldOf(Folded)
    /\ Returning => Folded = Tasks
    /\ main.pc = "done" => ret.ok = FoldOf(Tasks)

\* a goroutine is about to write accum while another, whose result is the
\* opposite one, waits for mu
C22_Witness ==
    \E t, u \in Tasks :
        /\ task[t].pc = "write"
        /\ task[u].pc = "Lock"
        /\ task[t].ok # task[u].ok
        /\ mu = t

----------------------------------------------------------------------------
(* Cause graphs that may hold a cycle.                                      *)
(*                                                                          *)
(* The traversals follow Cause() from one error value to the next.  The     *)
(* values pkg/errors and the classes build are immutable and point at       *)
(* values allocated before them, but a caller's own error type may carry a  *)
(* cause it sets later, and so close a cycle.  Here the error values are    *)
(* the cells of a heap, named 1..MaxNodes in allocation order, and each     *)
(* traversal advances one loop iteration per step, so that a traversal      *)
(* which never returns is a behaviour that never reaches "done".            *)

MaxNodes == 3

MaxCycOpt == 2

\* the width of uint in this model: the depth counters wrap at 2^UintBits
UintBits == 2

\* the longest slice CausesOf can allocate: room for every acyclic chain
MaxErrs == MaxNodes + 1

Node == 1..MaxNodes

\* The values that can be allocated as the n-th one.  cause = 0: the value
\* has no Cause() method.  A caller's causer may point at any value; a
\* *classErr wraps a value that existed when it was made.
Allocs(n) ==
    { [kind |-> "fundamental", shadow |-> FALSE, cause |-> 0] }
    \cup { [kind |-> "causer", shadow |-> FALSE, cause |-> c] : c \in Node }
    \cup { [kind |-> "classErr", shadow |-> b, cause |-> c] :
             b \in BOOLEAN, c \in 1..(n - 1) }

\* _, ok := e.(causer)
isCauser(h, e) == h[e].cause # 0

\* c.Cause()
CauseIn(h, e) == h[e].cause

\* _, ok := e.(*classErr)
isClassErr(h, e) == h[e].kind = "classErr"

\* Lens(k), Depth(d)
CycCfgs == { [lens |-> k, depth |-> d] : k \in 0..MaxCycOpt, d \in 0..MaxCycOpt }

\* the local variables of a traversal at its entry (before any traversal:
\* no error, position "idle")
enter(op, f, cfg, e) ==
    [pc |-> "lens", op |-> op, f |-> f, cfg |-> cfg, err |-> e,
     cursor |-> e, lensCursor |-> e, lens |-> cfg.lens, depth |-> 0,
     errs |-> <<>>, ok |-> FALSE]

InitCyc ==
    /\ gen \in {"select", "errsel"}
    /\ err = Nil
    /\ last = NoCall
    /\ ConcIdle
    /\ OnceIdle
    /\ heap \in { h \in [Node -> UNION { Allocs(n) : n \in Node }] :
                    \A n \in Node : h[n] \in Allocs(n) }
    /\ walk = [enter("none", FALSE, [lens |-> 0, depth |-> 0], 0) EXCEPT
                  !.pc = "idle", !.cursor = 0, !.lensCursor = 0]

\* Causes(f, Lens(k), Depth(d)).Traverse(e), f a predicate that answers the
\* same for every error: cursor := err
causes_traverse_enter(f, cfg, e) ==
    /\ gen = "select"
    /\ walk.pc = "idle"
    /\ walk' = enter("Causes", f, cfg, e)
    /\ UNCHANGED <<gen, seqVars, concVars, onceVars, heap>>

\* one test of causes.traverse's lens loop, and its body
causes_traverse_lens ==
    /\ walk.pc = "lens"
    /\ walk.op = "Causes"
    /\ walk' = IF walk.lens > 0 /\ isCauser(heap, walk.err)
               THEN [walk EXCEPT !.cursor = CauseIn(heap, walk.err), !.lens = @ - 1]
               ELSE [walk EXCEPT !.pc = "depth"]
    /\ UNCHANGED <<gen, seqVars, concVars, onceVars, heap>>

\* one test of causes.traverse's depth loop, and its body
causes_traverse_loop ==
    /\ walk.pc = "depth"
    /\ walk.op = "Causes"
    /\ walk' = IF walk.depth < walk.cfg.depth \/ walk.cfg.depth = 0
               THEN IF walk.f
                    THEN [walk EXCEPT !.pc = "done", !.ok = TRUE]
                    ELSE IF ~isCauser(heap, walk.cursor)
                         THEN [walk EXCEPT !.pc = "done"]
                         ELSE [walk EXCEPT !.cursor = CauseIn(heap, walk.cursor),
                                           !.depth = (@ + 1) % (2 ^ UintBits)]
               ELSE [walk EXCEPT !.pc = "done"]
    /\ UNCHANGED <<gen, seqVars, concVars, onceVars, heap>>

\* Classes(f, Lens(k), Depth(d)).Traverse(e): cursor, lensCursor := err, err
classes_traverse_enter(f, cfg, e) ==
    /\ gen = "select"
    /\ walk.pc = "idle"
    /\ walk' = enter("Classes", f, cfg, e)
    /\ UNCHANGED <<gen, seqVars, concVars, onceVars, heap>>

\* one test of classes.traverse's lens loop, and its body
classes_traverse_lens ==
    /\ walk.pc = "lens"
    /\ walk.op = "Classes"
    /\ walk' = IF walk.lens > 0
               THEN LET cursor == IF isClassErr(heap, walk.lensCursor)
                                   THEN walk.lensCursor ELSE walk.cursor
                    IN  IF isCauser(heap, walk.err)
                        THEN [walk EXCEPT !.cursor = cursor,
                                          !.lensCursor = CauseIn(heap, walk.err),
                                          !.lens = @ - 1]
                        ELSE [walk EXCEPT !.cursor = cursor, !.pc = "depth"]
               ELSE [walk EXCEPT !.pc = "depth"]
    /\ UNCHANGED <<gen, seqVars, concVars, onceVars, heap>>

\* one test of classes.traverse's depth loop, and its body
classes_traverse_loop ==
    /\ walk.pc = "depth"
    /\ walk.op = "Classes"
    /\ walk' = IF walk.depth < walk.cfg.depth \/ walk.cfg.depth = 0
               THEN IF isClassErr(heap, walk.cursor) /\ walk.f
                    THEN [walk EXCEPT !.pc = "done", !.ok = TRUE]
                    ELSE IF isClassErr(heap, walk.cursor) /\ heap[walk.cursor].shadow
                         THEN [walk EXCEPT !.pc = "done"]
                         ELSE IF ~isCauser(heap, walk.cursor)
                              THEN [walk EXCEPT !.pc = "done"]
                              ELSE [walk EXCEPT !.cursor = CauseIn(heap, walk.cursor),
                                                !.depth = (@ + 1) % (2 ^ UintBits)]
               ELSE [walk EXCEPT !.pc = "done"]
    /\ UNCHANGED <<gen, seqVars, concVars, onceVars, heap>>

\* CausesOf(e, Lens(k), Depth(d)), which the class queries, ClassesOf and the
\* selectors of errsel.go call first: e := err
errsel_CausesOf_enter(cfg, e) ==
    /\ gen = "errsel"
    /\ walk.pc = "idle"
    /\ walk' = [enter("CausesOf", FALSE, cfg, e) EXCEPT !.pc = "collect"]
    /\ UNCHANGED <<gen, seqVars, concVars, onceVars, heap>>

\* one round of CausesOf's for loop.  append needs room for one more
\* element: with none left the runtime ends the program.
errsel_CausesOf_collect ==
    /\ walk.pc = "collect"
    /\ walk' = IF Len(walk.errs) >= MaxErrs
               THEN [walk EXCEPT !.pc = "fatal"]
               ELSE IF isCauser(heap, walk.cursor)
                    THEN [walk EXCEPT !.cursor = CauseIn(heap, walk.cursor),
                                      !.errs = Append(@, CauseIn(heap, walk.cursor))]
                    ELSE [walk EXCEPT !.errs = Append(@, walk.cursor), !.pc = "slice"]
    /\ UNCHANGED <<gen, seqVars, concVars, onceVars, heap>>

\* CausesOf after its loop: apply lensing, apply depth cutoff, return
errsel_CausesOf_slice ==
    /\ walk.pc = "slice"
    /\ LET n == Len(walk.errs)
           lensed == IF walk.cfg.lens < n
                     THEN SubSeq(walk.errs, walk.cfg.lens + 1, n)
                     ELSE SubSeq(walk.errs, n, n)
           cut == IF walk.cfg.depth # 0 /\ Len(lensed) > walk.cfg.depth
                  THEN SubSeq(lensed, 1, walk.cfg.depth + 1)
                  ELSE lensed
       IN  walk' = [walk EXCEPT !.errs = cut, !.pc = "done", !.ok = TRUE]
    /\ UNCHANGED <<gen, seqVars, concVars, onceVars, heap>>

NextCyc ==
    \/ \E f \in BOOLEAN, cfg \in CycCfgs, e \in Node : causes_traverse_enter(f, cfg, e)
    \/ causes_traverse_lens
    \/ causes_traverse_loop
    \/ \E f \in BOOLEAN, cfg \in CycCfgs, e \in Node : classes_traverse_enter(f, cfg, e)
    \/ classes_traverse_lens
    \/ classes_traverse_loop
    \/ \E cfg \in CycCfgs, e \in Node : errsel_CausesOf_enter(cfg, e)
    \/ errsel_CausesOf_collect
    \/ errsel_CausesOf_slice

\* a goroutine that can take a step takes one
SpecCyc == InitCyc /\ [][NextCyc]_vars /\ WF_vars(NextCyc)

\* following Cause() from e ends within n hops at a value without one
RECURSIVE Ends(_, _, _)
Ends(h, e, n) ==
    IF ~isCauser(h, e) THEN TRUE
    ELSE IF n = 0 THEN FALSE
    ELSE Ends(h, CauseIn(h, e), n - 1)

Acyclic == Ends(heap, walk.err, MaxNodes)

Walking == walk.pc \in {"lens", "depth", "collect", "slice"}

\* C23: Chain traversal is bounded: a traversal by Causes, Classes or
\* CausesOf (and so a class query), once entered, returns, for every Lens
\* and Depth setting and every cause graph, cyclic ones included, whether
\* or not the predicate ever matches.
C23_TraversalTerminates == Walking ~> (walk.pc = "done")

\* C23, where the code is right: on a chain without a cycle every traversal
\* returns
C23_TraversalTerminates_acyclic == (Walking /\ Acyclic) ~> (walk.pc = "done")

\* C23, where the code is right: Causes and Classes with a Depth other than
\* 0 return on every cause graph
C23_TraversalTerminates_depth ==
    (Walking /\ walk.op \in {"Causes", "Classes"} /\ walk.cfg.depth > 0) ~> (walk.pc = "done")

\* C23, a finite run: CausesOf on a cycle appends until no memory is left
C23_CausesOfNeverExhaustsMemory == walk.pc # "fatal"

====
